---- MODULE Spec2Model ----
(***************************************************************************)
(* Model of inverno's Project construction (src/inverno/project.py):       *)
(* Project.__init__ runs _get_first_holdings, _get_currencies and          *)
(* _get_prices in that order.  Dates are day numbers, prices are integers  *)
(* (multiples of Unit, so that every linear interpolation is exact), and   *)
(* a missing float (np.nan) is the value NaN.                              *)
(***************************************************************************)
EXTENDS Integers, Sequences, FiniteSets, TLC

VARIABLES
    balances,            \* self.balances: date-ordered snapshots
    ticker,              \* holding.ticker per holding key
    transactions,        \* cfg.transactions_by_holding per holding key
    cfg_currency,        \* cfg.get_currency per holding key
    cfg_prices,          \* cfg.get_prices per holding key
    yf_info,             \* outcome of Currency[yf.Ticker(t).info["currency"]]
    yf_history,          \* outcome of yf.Ticker(t).history(...)["Close"]
    pc,                  \* position inside Project.__init__
    first_holdings,      \* self._first_holdings (insertion-ordered dict)
    ci,                  \* loop position of _get_currencies
    currencies,          \* local dict of _get_currencies
    holding_to_currency, \* self._holding_to_currency
    pi,                  \* loop position of _get_prices
    prices,              \* local list of _get_prices
    self_prices,         \* self._prices
    calls,               \* arguments of each _get_holding_prices call
    log,                 \* log_info / log_warning messages
    yf_calls,            \* requests made to the market-data provider
    error                \* exception that left __init__, if any

vars == <<balances, ticker, transactions, cfg_currency, cfg_prices, yf_info,
          yf_history, pc, first_holdings, ci, currencies, holding_to_currency,
          pi, prices, self_prices, calls, log, yf_calls, error>>

inputs == <<balances, ticker, transactions, cfg_currency, cfg_prices, yf_info,
            yf_history>>

----------------------------------------------------------------------------
(* Bounds and constants *)

MaxDay == 8
MaxBalances == 2
MaxTrs == 2
StaleDays == 7
NaN == -1

Days == 0 .. MaxDay
EndDate == MaxDay
Keys == {"A", "B"}
Currency == {"USD", "EUR"}
None == "None"
Ticker == "TCK"

Min(S) == CHOOSE x \in S : \A y \in S : x <= y
Max(S) == CHOOSE x \in S : \A y \in S : x >= y

RECURSIVE GCD(_, _)
GCD(a, b) == IF b = 0 THEN a ELSE GCD(b, a % b)

RECURSIVE LCMUpTo(_)
LCMUpTo(n) == IF n <= 1 THEN 1
              ELSE LET l == LCMUpTo(n - 1) IN (l * n) \div GCD(l, n)

\* Price amounts are multiples of Unit: every slope over at most MaxDay days
\* is then an integer.
Unit == LCMUpTo(MaxDay)
Amounts == {Unit, 3 * Unit}

NoPrice == [amount |-> NaN, currency |-> None]
Price(a, c) == [amount |-> a, currency |-> c]
Trs(d, p) == [date |-> d, price |-> p]

Range(s) == {s[i] : i \in 1 .. Len(s)}
EmptyMap == [k \in {} |-> None]
NoError == [type |-> None, key |-> None, stage |-> None]

----------------------------------------------------------------------------
(* _get_first_holdings *)

HasKey(holdings, key) == \E i \in 1 .. Len(holdings) : holdings[i].key = key

\* Faulty variant: the membership test is dropped, a later balance overwrites the date.
RECURSIVE AddHoldingsOverwrite(_, _, _)
AddHoldingsOverwrite(holdings, date, hs) ==
    IF hs = <<>> THEN holdings
    ELSE LET k == Head(hs) IN
         AddHoldingsOverwrite(
            IF HasKey(holdings, k)
            THEN [i \in 1 .. Len(holdings) |->
                    IF holdings[i].key = k THEN [key |-> k, date |-> date]
                    ELSE holdings[i]]
            ELSE Append(holdings, [key |-> k, date |-> date]),
            date, Tail(hs))

\* The inner loop: one balance's holdings, in the balance's own order.
RECURSIVE AddHoldings(_, _, _)
AddHoldings(holdings, date, hs) ==
    IF hs = <<>> THEN holdings
    ELSE LET k == Head(hs) IN
         AddHoldings(
            IF HasKey(holdings, k) THEN holdings
            ELSE Append(holdings, [key |-> k, date |-> date]),
            date, Tail(hs))

\* The outer loop over self.balances.values().
RECURSIVE FirstHoldingsFrom(_, _)
FirstHoldingsFrom(holdings, bals) ==
    IF bals = <<>> THEN holdings
    ELSE FirstHoldingsFrom(
            AddHoldings(holdings, Head(bals).date, Head(bals).holdings),
            Tail(bals))

FirstHoldings(bals) == FirstHoldingsFrom(<<>>, bals)

GetFirstHoldings ==
    /\ pc = "first_holdings"
    /\ first_holdings' = FirstHoldings(balances)
    /\ pc' = "currencies"
    /\ UNCHANGED <<inputs, ci, currencies, holding_to_currency, pi, prices,
                   self_prices, calls, log, yf_calls, error>>

----------------------------------------------------------------------------
(* _get_currencies *)

TransactionsByHolding(key) == transactions[key]

\* Index of the first transaction carrying a price, 0 if there is none.
FirstPriced(trs) ==
    IF \E i \in 1 .. Len(trs) : trs[i].price # NoPrice
    THEN Min({i \in 1 .. Len(trs) : trs[i].price # NoPrice})
    ELSE 0

\* Faulty variant: the configured currency is tried before the transactions.
CurrencyOfConfigFirst(key) ==
    LET trs == TransactionsByHolding(key)
        fp  == FirstPriced(trs)
    IN  IF cfg_currency[key] # None
        THEN [status |-> "ok", currency |-> cfg_currency[key], asked |-> FALSE]
        ELSE IF fp # 0
        THEN [status |-> "ok", currency |-> trs[fp].price.currency, asked |-> FALSE]
        ELSE IF ticker[key] # None /\ yf_info[key] \in Currency
        THEN [status |-> "ok", currency |-> yf_info[key], asked |-> TRUE]
        ELSE IF ticker[key] # None /\ yf_info[key] = "Raise"
        THEN [status |-> "ProviderError", currency |-> None, asked |-> TRUE]
        ELSE [status |-> "ValueError", currency |-> None,
              asked |-> ticker[key] # None]

\* Faulty variant: a holding no source resolves gets the destination currency.
CurrencyOfDefault(key) ==
    LET trs == TransactionsByHolding(key)
        fp  == FirstPriced(trs)
    IN  IF fp # 0
        THEN [status |-> "ok", currency |-> trs[fp].price.currency, asked |-> FALSE]
        ELSE IF cfg_currency[key] # None
        THEN [status |-> "ok", currency |-> cfg_currency[key], asked |-> FALSE]
        ELSE IF ticker[key] # None /\ yf_info[key] \in Currency
        THEN [status |-> "ok", currency |-> yf_info[key], asked |-> TRUE]
        ELSE IF ticker[key] # None /\ yf_info[key] = "Raise"
        THEN [status |-> "ProviderError", currency |-> None, asked |-> TRUE]
        ELSE [status |-> "ok", currency |-> "USD", asked |-> ticker[key] # None]

\* One iteration of the loop body for one holding: the currency found, or the
\* exception that leaves the loop.
CurrencyOf(key) ==
    LET trs == TransactionsByHolding(key)
        fp  == FirstPriced(trs)
    IN  IF fp # 0
        THEN [status |-> "ok", currency |-> trs[fp].price.currency, asked |-> FALSE]
        ELSE IF cfg_currency[key] # None
        THEN [status |-> "ok", currency |-> cfg_currency[key], asked |-> FALSE]
        ELSE IF ticker[key] # None /\ yf_info[key] \in Currency
        THEN [status |-> "ok", currency |-> yf_info[key], asked |-> TRUE]
        ELSE IF ticker[key] # None /\ yf_info[key] = "Raise"
        THEN [status |-> "ProviderError", currency |-> None, asked |-> TRUE]
        ELSE [status |-> "ValueError", currency |-> None,
              asked |-> ticker[key] # None]

GetCurrenciesIter ==
    /\ pc = "currencies"
    /\ ci <= Len(first_holdings)
    /\ LET key == first_holdings[ci].key
           r   == CurrencyOf(key)
       IN  /\ log' = log \cup {[msg |-> "Getting currency", key |-> key]}
           /\ yf_calls' = IF r.asked
                          THEN yf_calls \cup {[key |-> key, what |-> "info"]}
                          ELSE yf_calls
           /\ IF r.status = "ok"
              THEN /\ currencies' =
                        [k \in DOMAIN currencies \cup {key} |->
                            IF k = key THEN r.currency ELSE currencies[k]]
                   /\ ci' = ci + 1
                   /\ UNCHANGED <<pc, error>>
              ELSE /\ pc' = "aborted"
                   /\ error' = [type |-> r.status, key |-> key,
                                stage |-> "currencies"]
                   /\ UNCHANGED <<currencies, ci>>
    /\ UNCHANGED <<inputs, first_holdings, holding_to_currency, pi, prices,
                   self_prices, calls>>

GetCurrenciesReturn ==
    /\ pc = "currencies"
    /\ ci > Len(first_holdings)
    /\ holding_to_currency' = currencies
    /\ pc' = "prices"
    /\ UNCHANGED <<inputs, first_holdings, ci, currencies, pi, prices,
                   self_prices, calls, log, yf_calls, error>>

----------------------------------------------------------------------------
(* _get_holding_prices *)

NoSeries == [d \in {} |-> NaN]

\* prices[trs.date] = amount on a pandas Series: sets the label, adding it
\* when the index does not hold it yet.
SetItem(s, d, v) == [x \in DOMAIN s \cup {d} |-> IF x = d THEN v ELSE s[x]]

\* _reindex: the daily range from the first to the last label of s; a new
\* label takes the value of the last earlier label of s (method="pad").
\* Labels s already holds keep their value, NaN included.
Reindex(s) ==
    LET idx == DOMAIN s
    IN  [d \in Min(idx) .. Max(idx) |-> s[Max({x \in idx : x <= d})]]

RECURSIVE SetFromTransactions(_, _)
SetFromTransactions(s, trs) ==
    IF trs = <<>> THEN s
    ELSE SetFromTransactions(
            IF Head(trs).price = NoPrice THEN s
            ELSE SetItem(s, Head(trs).date, Head(trs).price.amount),
            Tail(trs))

UserSource(key) ==
    [status |-> "ok", source |-> "user", asked |-> FALSE,
     series |-> Reindex(cfg_prices[key].series)]

YahooSource(key) ==
    [status |-> "ok", source |-> "yahoo", asked |-> TRUE,
     series |-> Reindex(yf_history[key].close)]

InferredSource(key, start, end) ==
    [status |-> "ok", source |-> "transactions", asked |-> ticker[key] # None,
     series |-> Reindex(SetFromTransactions([d \in start .. end |-> NaN],
                                            TransactionsByHolding(key)))]

ProviderRaised(key) ==
    [status |-> "ProviderError", source |-> None, asked |-> TRUE,
     series |-> NoSeries]

\* Faulty variant: the market-data provider is asked before the user's prices.
HoldingPricesYahooFirst(key, start, end) ==
    IF ticker[key] # None /\ yf_history[key].status = "Raise"
    THEN ProviderRaised(key)
    ELSE IF ticker[key] # None /\ DOMAIN yf_history[key].close # {}
    THEN YahooSource(key)
    ELSE IF cfg_prices[key].present
    THEN [UserSource(key) EXCEPT !.asked = ticker[key] # None]
    ELSE InferredSource(key, start, end)

\* _get_holding_prices: the series returned, or the exception of the
\* provider call, which the function does not catch.
HoldingPrices(key, start, end) ==
    IF cfg_prices[key].present
    THEN UserSource(key)
    ELSE IF ticker[key] # None /\ yf_history[key].status = "Raise"
    THEN ProviderRaised(key)
    ELSE IF ticker[key] # None /\ DOMAIN yf_history[key].close # {}
    THEN YahooSource(key)
    ELSE InferredSource(key, start, end)

SourceMessage(source) ==
    CASE source = "user" -> "Using user-provided prices"
      [] source = "yahoo" -> "Using Yahoo Finance prices"
      [] OTHER -> "Inferring prices from transactions"

----------------------------------------------------------------------------
(* _get_prices *)

\* price_history.tail(7): the last StaleDays labels.
TailLabels(s) ==
    {d \in DOMAIN s : Cardinality({x \in DOMAIN s : x > d}) < StaleDays}

\* Faulty variant: one unfilled day among the last seven is enough to warn.
IsStaleAny(s) == \E d \in TailLabels(s) : s[d] = NaN

IsStale(s) == \A d \in TailLabels(s) : s[d] = NaN

AppendPrice(ps, key, s) == Append(ps, [name |-> key, data |-> s])

\* start=entry["date"]
StartOf(entry) == entry.date

GetPricesIter ==
    /\ pc = "prices"
    /\ pi <= Len(first_holdings)
    /\ LET entry == first_holdings[pi]
           key   == entry.key
           r     == HoldingPrices(key, StartOf(entry), EndDate)
       IN  /\ calls' = Append(calls, [key |-> key, start |-> StartOf(entry),
                                      end |-> EndDate])
           /\ yf_calls' = IF r.asked
                          THEN yf_calls \cup {[key |-> key, what |-> "history"]}
                          ELSE yf_calls
           /\ IF r.status = "ok"
              THEN /\ log' = log
                        \cup {[msg |-> SourceMessage(r.source), key |-> key]}
                        \cup (IF IsStale(r.series)
                              THEN {[msg |-> "Most recent price is older than one week",
                                     key |-> key]}
                              ELSE {})
                   /\ prices' = AppendPrice(prices, key, r.series)
                   /\ pi' = pi + 1
                   /\ UNCHANGED <<pc, error>>
              ELSE /\ pc' = "aborted"
                   /\ error' = [type |-> r.status, key |-> key,
                                stage |-> "prices"]
                   /\ UNCHANGED <<log, prices, pi>>
    /\ UNCHANGED <<inputs, first_holdings, ci, currencies,
                   holding_to_currency, self_prices>>

\* pd.concat(prices, axis=1, join="outer"): the union of the indexes, one
\* column per series, NaN where a series has no label.
Concat(ps) ==
    LET index == UNION {DOMAIN ps[i].data : i \in 1 .. Len(ps)}
        names == {ps[i].name : i \in 1 .. Len(ps)}
        of(k) == (CHOOSE i \in 1 .. Len(ps) : ps[i].name = k)
    IN  [index   |-> index,
         columns |-> [k \in names |->
                        [d \in index |->
                            IF d \in DOMAIN ps[of(k)].data
                            THEN ps[of(k)].data[d] ELSE NaN]]]

\* Faulty variant: gaps are padded with the last known value instead of interpolated.
InterpolateColumnPad(col) ==
    LET known == {d \in DOMAIN col : col[d] # NaN}
    IN  IF known = {} THEN col
        ELSE [d \in DOMAIN col |->
                IF col[d] # NaN THEN col[d]
                ELSE IF d < Min(known) THEN col[Min(known)]
                ELSE col[Max({x \in known : x < d})]]

\* interpolate(method="time", limit_direction="both") on one column: linear
\* in time between the nearest known values, the nearest known value beyond
\* the first and the last one, nothing when the column knows no value.
InterpolateColumn(col) ==
    LET known == {d \in DOMAIN col : col[d] # NaN}
    IN  IF known = {} THEN col
        ELSE [d \in DOMAIN col |->
                IF col[d] # NaN THEN col[d]
                ELSE IF d < Min(known) THEN col[Min(known)]
                ELSE IF d > Max(known) THEN col[Max(known)]
                ELSE LET d0 == Max({x \in known : x < d})
                         d1 == Min({x \in known : x > d})
                     IN  col[d0] + ((col[d1] - col[d0]) * (d - d0)) \div (d1 - d0)]

Interpolate(df) ==
    [index   |-> df.index,
     columns |-> [k \in DOMAIN df.columns |-> InterpolateColumn(df.columns[k])]]

NoTable == [index |-> {}, columns |-> EmptyMap]

\* The code after the loop; pd.concat raises ValueError on an empty list.
GetPricesConcat ==
    /\ pc = "prices"
    /\ pi > Len(first_holdings)
    /\ IF prices = <<>>
       THEN /\ pc' = "aborted"
            /\ error' = [type |-> "ValueError", key |-> None, stage |-> "prices"]
            /\ UNCHANGED self_prices
       ELSE /\ self_prices' = Interpolate(Concat(prices))
            /\ pc' = "done"
            /\ UNCHANGED error
    /\ UNCHANGED <<inputs, first_holdings, ci, currencies,
                   holding_to_currency, pi, prices, calls, log, yf_calls>>

----------------------------------------------------------------------------
(* Inputs.  Three families of configurations, each varying one part of the  *)
(* input widely and keeping the rest small.  In all of them a holding's     *)
(* transactions and quotes are dated from its first balance to EndDate, and *)
(* balances come in strictly increasing date order.                         *)

HoldingLists == {<<>>, <<"A">>, <<"B">>, <<"A", "B">>, <<"B", "A">>}
Balance(d, hs) == [date |-> d, holdings |-> hs]

BalanceSeqs ==
    UNION {{b \in [1 .. n -> [date : Days, holdings : HoldingLists]] :
              \A i \in 1 .. n - 1 : b[i].date < b[i + 1].date}
           : n \in 0 .. MaxBalances}

Held(bals) == UNION {Range(bals[i].holdings) : i \in 1 .. Len(bals)}

\* The earliest balance date on which the key appears.
EarliestDate(bals, key) ==
    Min({bals[i].date : i \in {j \in 1 .. Len(bals) : key \in Range(bals[j].holdings)}})

Absent == [present |-> FALSE, series |-> NoSeries]
Given(s) == [present |-> TRUE, series |-> s]
Closes(s) == [status |-> "ok", close |-> s]
Raises == [status |-> "Raise", close |-> NoSeries]

\* Series of one or two quotes between day s and EndDate.
Quotes(s) ==
    {[d \in {d0} |-> a] : d0 \in s .. EndDate, a \in Amounts}
    \cup UNION {{[d \in {d0, d1} |-> IF d = d0 THEN a0 ELSE a1]
                   : a0 \in Amounts, a1 \in Amounts}
                : d0 \in s .. EndDate, d1 \in s .. EndDate}

PriceOptions == {NoPrice} \cup {Price(a, "USD") : a \in Amounts}

\* Transactions in date order from day s on, each with or without a price.
DatedTrs(s) ==
    UNION {{t \in [1 .. n -> [date : s .. EndDate, price : PriceOptions]] :
              \A i \in 1 .. n - 1 : t[i].date <= t[i + 1].date}
           : n \in 0 .. MaxTrs}

\* Transactions on day s whose prices vary in currency only.
CurrencyTrs(s) ==
    UNION {[1 .. n -> [date : {s},
                       price : {NoPrice} \cup {Price(Unit, c) : c \in Currency}]]
           : n \in 0 .. MaxTrs}

Case(t, trs, cc, cp, yi, yh) ==
    [ticker |-> t, transactions |-> trs, cfg_currency |-> cc,
     cfg_prices |-> cp, yf_info |-> yi, yf_history |-> yh]

Unheld == Case(None, <<>>, None, Absent, None, Closes(NoSeries))

\* A holding bought once at a price, with no other source of anything.
Plain(s) ==
    Case(None, <<Trs(s, Price(Unit, "USD"))>>, None, Absent, None,
         Closes(NoSeries))

\* Currency sources vary; the provider has no price history.
CurrencyCases(s) ==
    {Case(None, trs, cc, Absent, None, Closes(NoSeries))
        : trs \in CurrencyTrs(s), cc \in {None} \cup Currency}
    \cup
    {Case(Ticker, trs, cc, Absent, yi, Closes(NoSeries))
        : trs \in CurrencyTrs(s), cc \in {None} \cup Currency,
          yi \in Currency \cup {"KeyError", "Raise"}}

FewCurrencyCases(s) ==
    {Plain(s),
     Case(None, <<Trs(s, NoPrice)>>, "EUR", Absent, None, Closes(NoSeries)),
     Case(Ticker, <<Trs(s, NoPrice)>>, None, Absent, "EUR", Closes(NoSeries)),
     Case(Ticker, <<Trs(s, NoPrice)>>, None, Absent, "KeyError", Closes(NoSeries))}

FewTrs(s) == {<<Trs(s, NoPrice)>>, <<Trs(s, Price(Unit, "USD"))>>}

\* Price sources vary; the currency is configured.
PriceCases(s) ==
    {Case(None, trs, "USD", Given(q), None, Closes(NoSeries))
        : trs \in FewTrs(s), q \in Quotes(s)}
    \cup
    {Case(Ticker, trs, "USD", Given(q), "USD", yh)
        : trs \in FewTrs(s), q \in Quotes(s),
          yh \in {Closes([d \in {s} |-> Unit]), Raises}}
    \cup
    {Case(Ticker, trs, "USD", Absent, "USD", Closes(q))
        : trs \in FewTrs(s), q \in Quotes(s)}
    \cup
    {Case(None, trs, "USD", Absent, None, Closes(NoSeries))
        : trs \in DatedTrs(s)}
    \cup
    {Case(Ticker, trs, "USD", Absent, "USD", Closes(NoSeries))
        : trs \in DatedTrs(s)}
    \cup
    {Case(Ticker, trs, "USD", Absent, "USD", Raises) : trs \in FewTrs(s)}

FewPriceCases(s) ==
    {Case(None, <<Trs(s, NoPrice)>>, "USD",
          Given([d \in {s + 1, s + 3} |-> IF d = s + 1 THEN Unit ELSE 3 * Unit]),
          None, Closes(NoSeries)),
     Case(None, <<Trs(s, NoPrice)>>, "USD", Absent, None, Closes(NoSeries)),
     Plain(s)}

FewBalances ==
    {<<Balance(0, <<"A", "B">>)>>,
     <<Balance(0, <<"A">>), Balance(2, <<"B", "A">>)>>,
     <<Balance(1, <<"B">>), Balance(3, <<"A">>)>>}

SetInputs(bals, a, b) ==
    LET c == [k \in Keys |-> IF k = "A" THEN a ELSE b]
    IN  /\ balances = bals
        /\ ticker = [k \in Keys |-> c[k].ticker]
        /\ transactions = [k \in Keys |-> c[k].transactions]
        /\ cfg_currency = [k \in Keys |-> c[k].cfg_currency]
        /\ cfg_prices = [k \in Keys |-> c[k].cfg_prices]
        /\ yf_info = [k \in Keys |-> c[k].yf_info]
        /\ yf_history = [k \in Keys |-> c[k].yf_history]

InitBalances ==
    \E bals \in BalanceSeqs :
        SetInputs(bals,
                  IF "A" \in Held(bals) THEN Plain(EarliestDate(bals, "A")) ELSE Unheld,
                  IF "B" \in Held(bals) THEN Plain(EarliestDate(bals, "B")) ELSE Unheld)

InitCurrencies ==
    \E hs \in {<<"A", "B">>, <<"B", "A">>} :
        \E a \in CurrencyCases(0), b \in FewCurrencyCases(0) :
            SetInputs(<<Balance(0, hs)>>, a, b)

InitPrices ==
    \E bals \in FewBalances :
        \E a \in PriceCases(EarliestDate(bals, "A")),
           b \in FewPriceCases(EarliestDate(bals, "B")) :
            SetInputs(bals, a, b)

Init ==
    /\ InitBalances \/ InitCurrencies \/ InitPrices
    /\ pc = "first_holdings"
    /\ first_holdings = <<>>
    /\ ci = 1
    /\ currencies = EmptyMap
    /\ holding_to_currency = EmptyMap
    /\ pi = 1
    /\ prices = <<>>
    /\ self_prices = NoTable
    /\ calls = <<>>
    /\ log = {}
    /\ yf_calls = {}
    /\ error = NoError

Next ==
    \/ GetFirstHoldings
    \/ GetCurrenciesIter
    \/ GetCurrenciesReturn
    \/ GetPricesIter
    \/ GetPricesConcat

Spec == Init /\ [][Next]_vars

----------------------------------------------------------------------------
(* Vocabulary of the properties *)

HeldKeys == {first_holdings[i].key : i \in 1 .. Len(first_holdings)}
PricedTrs(key) ==
    {i \in 1 .. Len(transactions[key]) : transactions[key][i].price # NoPrice}
HasTicker(key) == ticker[key] # None
Logged(m, key) == [msg |-> m, key |-> key] \in log
Asked(key, what) == [key |-> key, what |-> what] \in yf_calls
StaleMessage == "Most recent price is older than one week"

\* The holdings whose loop iteration in _get_currencies has run.
CurrencyTried(i) ==
    \/ ci > i
    \/ (pc = "aborted" /\ error.stage = "currencies" /\ ci = i)

\* No source yields a currency: no priced transaction, nothing configured,
\* and no ticker or a ticker whose currency lookup finds nothing (KeyError).
Unresolvable(key) ==
    /\ PricedTrs(key) = {}
    /\ cfg_currency[key] = None
    /\ (~HasTicker(key) \/ yf_info[key] = "KeyError")

\* No source yields a price point.
ZeroPoints(key) ==
    /\ ~cfg_prices[key].present
    /\ \/ ~HasTicker(key)
       \/ (yf_history[key].status = "ok" /\ DOMAIN yf_history[key].close = {})
    /\ PricedTrs(key) = {}

\* The direct quotes of the source that _get_holding_prices is to select.
TrsQuotes(key) ==
    LET trs == transactions[key]
        on(d) == {i \in PricedTrs(key) : trs[i].date = d}
    IN  [d \in {trs[i].date : i \in PricedTrs(key)} |-> trs[Max(on(d))].price.amount]

DirectQuotes(key) ==
    IF cfg_prices[key].present THEN cfg_prices[key].series
    ELSE IF HasTicker(key) /\ DOMAIN yf_history[key].close # {}
    THEN yf_history[key].close
    ELSE TrsQuotes(key)

\* The cell of column k on day d before gap filling.
RawCell(k, d) ==
    LET n == CHOOSE i \in 1 .. Len(prices) : prices[i].name = k
    IN  IF d \in DOMAIN prices[n].data THEN prices[n].data[d] ELSE NaN

KnownDays(k) == {d \in self_prices.index : RawCell(k, d) # NaN}

----------------------------------------------------------------------------
(* Properties *)

\* C1: once _get_prices has built the price table, no cell of it is empty,
\* for every holding column and every date of its index.
C1_NoEmptyCell ==
    pc = "done" =>
        \A k \in DOMAIN self_prices.columns : \A d \in self_prices.index :
            self_prices.columns[k][d] # NaN

\* C2: every series _get_holding_prices returns covers exactly the days from
\* start to end, and a day without a direct quote carries the last earlier
\* quote.
C2_DailyForwardFilled ==
    \A n \in 1 .. Len(prices) :
        LET data == prices[n].data
            q    == DirectQuotes(prices[n].name)
        IN  /\ DOMAIN data = calls[n].start .. calls[n].end
            /\ \A d \in DOMAIN data :
                  (\E x \in DOMAIN q : x <= d) =>
                      data[d] = q[Max({x \in DOMAIN q : x <= d})]

\* C3: construction never completes with a holding for which every price
\* source yields zero points.
C3_ZeroPointsIsFatal ==
    pc = "done" => \A k \in HeldKeys : ~ZeroPoints(k)

\* C4: a holding with a priced transaction resolves to the currency of the
\* first such transaction whatever else is configured; the configured
\* currency is used only without a priced transaction, the provider's only
\* without both.
C4_CurrencyPriority ==
    /\ \A i \in 1 .. Len(first_holdings) :
          (ci > i /\ PricedTrs(first_holdings[i].key) # {}) =>
              first_holdings[i].key \in DOMAIN currencies
    /\ \A k \in DOMAIN currencies :
          /\ PricedTrs(k) # {} =>
                /\ currencies[k] = transactions[k][Min(PricedTrs(k))].price.currency
                /\ ~Asked(k, "info")
          /\ (PricedTrs(k) = {} /\ cfg_currency[k] # None) =>
                /\ currencies[k] = cfg_currency[k]
                /\ ~Asked(k, "info")
          /\ (PricedTrs(k) = {} /\ cfg_currency[k] = None) =>
                /\ HasTicker(k)
                /\ currencies[k] = yf_info[k]
    /\ pc \in {"prices", "done"} => holding_to_currency = currencies

C4_Witness ==
    /\ pc = "prices"
    /\ \E k \in DOMAIN holding_to_currency :
          /\ Len(transactions[k]) = 2
          /\ transactions[k][1].price = NoPrice
          /\ transactions[k][2].price.currency = "EUR"
          /\ cfg_currency[k] = "USD"
          /\ HasTicker(k) /\ yf_info[k] = "USD"
          /\ holding_to_currency[k] = "EUR"

C6_SourcePriority ==
    \A n \in 1 .. Len(prices) :
        LET k    == prices[n].name
            data == prices[n].data
            q    == DirectQuotes(k)
            src  == IF cfg_prices[k].present THEN "user"
                    ELSE IF HasTicker(k) /\ DOMAIN yf_history[k].close # {}
                    THEN "yahoo" ELSE "transactions"
        IN  /\ \A s \in {"user", "yahoo", "transactions"} :
                  Logged(SourceMessage(s), k) <=> s = src
            /\ src = "user" => ~Asked(k, "history")
            /\ src # "user" => (Asked(k, "history") <=> HasTicker(k))
            /\ \A d \in DOMAIN q : d \in DOMAIN data /\ data[d] = q[d]
            /\ src = "transactions" =>
                  \A d \in DOMAIN data : d \notin DOMAIN q => data[d] = NaN

C6_Witness ==
    /\ pc = "done"
    /\ \E k \in HeldKeys :
          /\ cfg_prices[k].present
          /\ HasTicker(k)
          /\ DOMAIN yf_history[k].close # {}
          /\ PricedTrs(k) # {}
          /\ Logged(SourceMessage("user"), k)
    /\ \E k \in HeldKeys :
          /\ ~cfg_prices[k].present
          /\ PricedTrs(k) # {}
          /\ Logged(SourceMessage("transactions"), k)

\* C7: construction is never aborted by a failure of the market-data
\* provider while a lower-priority source remains for that holding.
C7_ProviderFailureNonFatal ==
    (pc = "aborted" /\ error.type = "ProviderError") =>
        \/ error.stage = "currencies"
        \/ PricedTrs(error.key) = {}

\* C8: the staleness warning is logged for a holding exactly when the last
\* StaleDays entries of its series are all empty; the series is appended all
\* the same, the loop goes on and the table has a column for every holding.
C8_StaleWarningNonFatal ==
    /\ \A n \in 1 .. Len(prices) :
          LET data == prices[n].data
          IN  Logged(StaleMessage, prices[n].name) <=>
                  \A d \in DOMAIN data :
                      d > Max(DOMAIN data) - StaleDays => data[d] = NaN
    /\ \A k \in Keys :
          Logged(StaleMessage, k) => \E n \in 1 .. Len(prices) : prices[n].name = k
    /\ pc \in {"prices", "done"} =>
          /\ Len(prices) = pi - 1
          /\ \A n \in 1 .. Len(prices) : prices[n].name = first_holdings[n].key
    /\ pc = "done" => DOMAIN self_prices.columns = HeldKeys

C8_Witness ==
    /\ pc = "done"
    /\ Len(first_holdings) = 2
    /\ LET k == first_holdings[1].key
       IN  /\ Logged(StaleMessage, k)
           /\ \E d \in DOMAIN prices[1].data : prices[1].data[d] # NaN
           /\ k \in DOMAIN self_prices.columns
    /\ ~Logged(StaleMessage, first_holdings[2].key)

\* C9: an empty cell between two known values of its own column is filled
\* linearly in time: v0 + (v1 - v0) * (d - d0) / (d1 - d0); 100 on day 0 and
\* 200 on day 10 give 150 on day 5.
C9_LinearInTime ==
    /\ pc = "done" =>
          \A k \in DOMAIN self_prices.columns : \A d \in self_prices.index :
              LET before == {x \in KnownDays(k) : x < d}
                  after  == {x \in KnownDays(k) : x > d}
              IN  (RawCell(k, d) = NaN /\ before # {} /\ after # {}) =>
                      LET d0 == Max(before)
                          d1 == Min(after)
                          v0 == RawCell(k, d0)
                          v1 == RawCell(k, d1)
                      IN  self_prices.columns[k][d] * (d1 - d0)
                              = v0 * (d1 - d0) + (v1 - v0) * (d - d0)
    /\ InterpolateColumn([d \in 0 .. 10 |->
            IF d = 0 THEN 100 ELSE IF d = 10 THEN 200 ELSE NaN])[5] = 150

C9_Witness ==
    /\ pc = "done"
    /\ \E k \in DOMAIN self_prices.columns : \E d \in self_prices.index :
          /\ RawCell(k, d) = NaN
          /\ \E d0 \in KnownDays(k), d1 \in KnownDays(k) :
                /\ d0 < d /\ d < d1 /\ d1 - d0 >= 3
                /\ \A x \in KnownDays(k) : x <= d0 \/ x >= d1
                /\ RawCell(k, d0) # RawCell(k, d1)
                /\ self_prices.columns[k][d] # RawCell(k, d0)
                /\ self_prices.columns[k][d] # RawCell(k, d1)
                /\ self_prices.columns[k][d] # NaN

\* C10: _get_first_holdings holds exactly one entry per key that appears in
\* a balance, dated with the earliest balance holding the key, and
\* _get_prices passes that date as the start of the key's price history.
C10_EarliestBalanceDate ==
    pc # "first_holdings" =>
        /\ HeldKeys = Held(balances)
        /\ \A i, j \in 1 .. Len(first_holdings) :
              first_holdings[i].key = first_holdings[j].key => i = j
        /\ \A i \in 1 .. Len(first_holdings) :
              first_holdings[i].date = EarliestDate(balances, first_holdings[i].key)
        /\ \A n \in 1 .. Len(calls) :
              /\ calls[n].key = first_holdings[n].key
              /\ calls[n].start = EarliestDate(balances, calls[n].key)

C10_Witness ==
    /\ pc = "done"
    /\ Len(balances) = 2
    /\ "A" \notin Range(balances[1].holdings)
    /\ balances[2].holdings = <<"A", "B">>
    /\ "B" \in Range(balances[1].holdings)
    /\ Len(calls) = 2
    /\ calls[1] = [key |-> "B", start |-> balances[1].date, end |-> EndDate]
    /\ calls[2] = [key |-> "A", start |-> balances[2].date, end |-> EndDate]

====
